---- MODULE Spec2Model ----
(***************************************************************************)
(* Report composition engine of Elder Brain Analytics                      *)
(* (src/eba_reports.py): gerar_pdf_corporativo, its chart pipeline         *)
(* (fig_to_png_path, _embed) and the PDFReport helpers it drives.          *)
(*                                                                         *)
(* One run of gerar_pdf_corporativo is a sequential walk over the program  *)
(* positions in Steps.  The payload is read where the code reads it; a     *)
(* field that is read once is drawn from its domain at that point, a       *)
(* field that is read on both the full path and the fallback path          *)
(* (compatibilidade_geral) is fixed in Init.                                *)
(* A document is recorded by what it shows: the sections in emission       *)
(* order, the kind of content each section has after its heading and the   *)
(* elements drawn in each chart slot.                                      *)
(*                                                                         *)
(* Single functions are studied in specifications of their own, each on    *)
(* its own variables: the trait lines of section 4 (SpecTraits), the       *)
(* bullet lists of sections 7 and 8 (SpecComp), PDFReport._safe            *)
(* (SpecSafe), the page flow with header and footer (SpecLayout), the      *)
(* text primitives safe_cell and safe_multi_cell (SpecDraw) and two runs   *)
(* on the same arguments (SpecTwice).                                      *)
(*                                                                         *)
(* The callers of the engine are studied the same way: the payload limits  *)
(* of the extraction prompt (SpecPrompt), the retry loop of                *)
(* _chat_completion_json (SpecChat), the conversations of extract_bfa_data *)
(* and analyze_bfa_data (SpecConv), the session of app.py (SpecApp) and    *)
(* the radar chart with its summary (SpecRadar).                           *)
(***************************************************************************)
EXTENDS Integers, Sequences, FiniteSets, TLC

\* ---------------------------------------------------------------- bounds
MaxItems == 2          \* longest payload list drawn for a list-valued field
MaxTraits == 2         \* most entries of a traits_bfa mapping
MaxComp == 2           \* most records of a competencias_ms list
MaxStr == 4            \* longest string passed to PDFReport._safe
\* the token length at which _break_long_tokens cuts (80 in the source),
\* scaled to the strings above
max_len == 2
MaxLines == 42         \* most lines a paragraph wraps into
MaxPages == 3          \* pages of the documents laid out
MaxTxt == 61           \* longest sanitized text passed to a text primitive
MaxNow == 3            \* minutes the clock advances
Slack == 2             \* how far around each limit the lengths are drawn
MaxRetries == 4        \* largest max_retries passed (the default is 3)
MaxFiles == 2          \* reports that can be uploaded
MaxAnalyses == 2       \* analyses completed in one session
MaxGens == 3           \* clicks on the generate button in one session

SeqsUpTo(S, n) == UNION {[1..k -> S] : k \in 0..n}

Range(s) == {s[i] : i \in 1..Len(s)}

\* ------------------------------------------------------------- constants
\* len(b"%PDF-1.4\n%EOF\n"), the last-resort document
StubBytes == 14
\* size of a serialized FPDF document with at least one page (header,
\* page object, font, xref table and trailer)
PdfBytes == 1000

\* chart slots in the order of sections 5.1, 5.2, 5.3
ChartOrderGaugeSecond == <<"radar", "gauge", "comp">>
ChartOrder == <<"radar", "comp", "gauge">>
Charts == Range(ChartOrder)

\* program positions of the full path, in source order: the cover, the
\* sections headed "1. Informacoes do Candidato", "2. Decisao e
\* Compatibilidade", "3. Resumo Executivo", "4. Tracos de Personalidade",
\* "5. Visualizacoes", "6. Saude Emocional e Resiliencia", "7. Pontos
\* Fortes", "8. Pontos de Atencao", "9. Recomendacoes de Desenvolvimento",
\* "10. Cargos Alternativos Sugeridos", "11. Consideracoes Finais", and
\* the serialization
StepsRisksFirst ==
  <<"cover", "candidato", "decisao", "resumo", "tracos", "graficos",
    "saude", "atencao", "fortes", "recomendacoes", "alternativos",
    "finais", "output">>
Steps ==
  <<"cover", "candidato", "decisao", "resumo", "tracos", "graficos",
    "saude", "fortes", "atencao", "recomendacoes", "alternativos",
    "finais", "output">>

StepIndex(p) == CHOOSE i \in 1..Len(Steps) : Steps[i] = p
After(p) == Steps[StepIndex(p) + 1]

Sections == Range(Steps) \ {"output"}

VARIABLES
  pc,            \* position of the run
  compat,        \* analysis["compatibilidade_geral"]: "ok" (number, None, absent) or "bad"
  raster,        \* per chart, what the rasterization backend did
  unicode,       \* pdf._unicode
  sections,      \* sections emitted into pdf, in order
  content,       \* per section, what follows its heading
  justificativa, \* local variable justificativa of the full path
  ci,            \* index in ChartOrder of the chart slot being processed
  path,          \* return value of fig_to_png_path inside _embed
  slot,          \* per chart, the elements drawn in its slot
  tmpFiles,      \* temporary chart files that exist on disk
  read,          \* kind of the payload field the last step read
  comp_fig,      \* "None" or "fig": local variable comp_fig
  faults,        \* failures that have occurred in the run
  reported,      \* st.error messages
  result,        \* what the caller receives
  disk,          \* what save_path holds
  traits,        \* bfa_data["traits_bfa"] as a sequence of <<key, value>>
  traitLines,    \* the lines section 4 draws for the traits
  tpc,           \* position of the trait rendering
  competencias,  \* bfa_data["competencias_ms"] as a sequence of [nome, nota]
  pontos_fortes, \* bfa_data["pontos_fortes"]
  pontos_atencao,\* bfa_data["pontos_atencao"]
  fortes,        \* the bullets section 7 draws
  atencao,       \* the bullets section 8 draws
  cpc,           \* position of the rendering of sections 7 and 8
  s_in,          \* the argument of a call of PDFReport._safe
  s_out,         \* what the call returned, or that it raised
  spc,           \* position of the call of _safe
  page,          \* pdf.page_no()
  y,             \* pdf.get_y(), in tenths of a millimetre
  hdr,           \* pages on which header() drew the running header
  ftr,           \* <<page, number shown>> for each footer drawn
  block,         \* the fixed-height block just drawn, if any
  lpc,           \* position of the layout walk
  prim,          \* the text primitive called: safe_cell or safe_multi_cell
  txt,           \* its txt argument
  attempts,      \* the draw calls it made: what was passed, whether it drew
  dpc,           \* position of the primitive
  now,           \* datetime.now(), in minutes
  fonts,         \* the font files in the fonts directory
  outs,          \* the documents returned by successive runs
  s_again,       \* what _safe returns for the string it returned
  text,          \* len(text), argument of extract_bfa_data
  training_context, \* len(training_context)
  prompt,        \* how much of each was placed into the prompt
  ppc,           \* position of the prompt construction
  max_retries,   \* argument of _chat_completion_json
  provider,      \* argument provider, lower-cased
  attempt,       \* loop variable attempt
  events,        \* API calls (with their outcome) and sleeps, in order
  kpc,           \* position of _chat_completion_json
  fn,            \* "extract" or "analyze": the function called
  responses,     \* the contents the conversations returned
  tracked,       \* calls of _estimate_and_add
  ret,           \* what the function returned
  vpc,           \* position of the function
  ss,            \* st.session_state
  analyses,      \* analyses completed in the session
  gens,          \* the generations requested: data version, buffer, stored
  mails,         \* admin reports sent, by the generation that sent them
  labels_drawn,  \* per radar label, the value plotted and its ideal range
  desvios,       \* per payload key, the range _resumo_radar measured against
  rtraits,       \* traits_bfa as a sequence of <<key, value>>
  traits_ideais, \* the ideal ranges of the job profile
  rpc            \* position of the radar study

vars == <<pc, compat, raster, unicode, sections, content, justificativa,
          ci, path, slot, read, comp_fig, tmpFiles, faults, reported,
          result, disk,
          traits, traitLines, tpc,
          competencias, pontos_fortes, pontos_atencao, fortes, atencao, cpc,
          s_in, s_out, spc,
          page, y, hdr, ftr, block, lpc,
          prim, txt, attempts, dpc,
          now, fonts, outs, s_again,
          text, training_context, prompt, ppc,
          max_retries, provider, attempt, events, kpc,
          fn, responses, tracked, ret, vpc,
          ss, analyses, gens, mails,
          labels_drawn, desvios, rtraits, traits_ideais, rpc>>

docVars == <<sections, content, justificativa, ci, path, slot, read, comp_fig,
            raster>>
envVars == <<compat>>
traitVars == <<traits, traitLines, tpc>>
compVars == <<competencias, pontos_fortes, pontos_atencao, fortes, atencao,
             cpc>>
safeVars == <<s_in, s_out, spc, s_again>>
promptVars == <<text, training_context, prompt, ppc>>
chatVars == <<max_retries, provider, attempt, events, kpc>>
convVars == <<fn, responses, tracked, ret, vpc>>
appVars == <<ss, analyses, gens, mails>>
radarVars == <<labels_drawn, desvios, rtraits, traits_ideais, rpc>>
llmVars == <<promptVars, chatVars, convVars, appVars, radarVars>>
layoutVars == <<page, y, hdr, ftr, block, lpc>>
drawVars == <<prim, txt, attempts, dpc>>
twiceVars == <<now, fonts, outs>>
\* the state of the studies of single functions
auxVars == <<traitVars, compVars, safeVars, layoutVars, drawVars, twiceVars,
            llmVars>>
\* the state of one run of gerar_pdf_corporativo
runVars == <<pc, envVars, unicode, docVars, tmpFiles, faults, reported,
            result, disk>>

\* ------------------------------------------------------- payload domains
\* a text field: key absent, empty string / None, or a non-empty string
TextKinds == {"absent", "empty", "text"}
\* dict.get(key, default) on a text field
Get(field, default) == IF field = "absent" THEN default ELSE field

\* items of pontos_fortes / pontos_atencao / analise_tracos values
ItemKinds == {"blank", "text"}
\* items of recomendacoes_desenvolvimento: falsy, a string, or an object
\* with titulo / descricao / impacto_esperado
RecKinds == {"blank", "text", "dict"}
\* items of cargos_alternativos: a dict with a cargo name, a dict without
\* one, or an item that is not a dict
AltKinds == {"named", "unnamed", "notdict"}
\* values of indicadores_saude_emocional
IndKinds == {"None", "num", "bad"}
\* items of competencias_ms: nome and nota, nome only, nota only
CompKinds == {"ok", "nonota", "nonome"}

\* the five labels of criar_radar_bfa
TraitKeys == <<"Abertura", "Conscienciosidade", "Extroversão",
               "Amabilidade", "Neuroticismo">>
TraitVals == {"None", "num"}
TraitMaps ==
  {s \in SeqsUpTo(Range(TraitKeys) \X TraitVals, MaxTraits) :
     \A i, j \in 1..Len(s) : i # j => s[i][1] # s[j][1]}

\* ------------------------------------------------------------- documents
\* pos is the stream position of the buffer (buf.seek(0), lines 738, 823)
NoDoc == [kind |-> "none", nbytes |-> 0, fields |-> {}, pos |-> 0]
\* the full report, serialized
FullDoc == [kind |-> "full", nbytes |-> PdfBytes,
            fields |-> {"name", "cargo", "date", "decision", "compat"},
            pos |-> 0]
\* the document built when pdf.output raises
SerFallbackDoc == [kind |-> "serfb", nbytes |-> PdfBytes,
                   fields |-> {"cargo", "date"}, pos |-> 0]
\* the simplified document of the top-level handler
SimpleDoc == [kind |-> "simple", nbytes |-> PdfBytes,
              fields |-> {"name", "cargo", "date", "decision", "compat"},
              pos |-> 0]
StubDoc == [kind |-> "stub", nbytes |-> StubBytes, fields |-> {}, pos |-> 0]

\* the inner handler of the top-level fallback
LastResortReraise == [pc |-> "raised", buf |-> NoDoc]
LastResort == [pc |-> "done", buf |-> StubDoc]

\* ------------------------------------------------------------ operators
\* files: per font file "present", "download_ok" or "download_fail"
FontFiles == {"Regular", "Bold", "Italic"}
FontStates == {"present", "download_ok", "download_fail"}
register_montserrat(files, addRaises) ==
  IF \E f \in FontFiles : files[f] = "download_fail" THEN FALSE
  ELSE ~addRaises

\* env: "unavailable" (plotly.io or the temporary file cannot be had),
\* "export_fail" (write_image raises after the file was created), "ok"
RasterOutcomes == {"unavailable", "export_fail", "ok"}
fig_to_png_path_reraise(env) ==
  [path |-> IF env = "ok" THEN "tmp" ELSE "None",
   created |-> env # "unavailable",
   raised |-> env # "ok"]
fig_to_png_path(env) ==
  [path |-> IF env = "ok" THEN "tmp" ELSE "None",
   created |-> env # "unavailable",
   raised |-> FALSE]

\* "None", "fig" or "raise"
criar_grafico_competencias(comps) ==
  IF comps = <<>> THEN "None"
  ELSE IF \A i \in 1..Len(comps) : comps[i] = "nonota" THEN "None"
  ELSE IF "nonota" \in Range(comps) THEN "raise"
  ELSE IF "ok" \in Range(comps) THEN "fig"
  ELSE "raise"

\* section 4: one line per entry whose value is not None, in payload order
RECURSIVE TraitLines(_)
TraitLines(tr) ==
  IF tr = <<>> THEN <<>>
  ELSE IF Head(tr)[2] = "None" THEN TraitLines(Tail(tr))
  ELSE <<<<Head(tr)[1], "value">>>> \o TraitLines(Tail(tr))

\* what follows each heading: "data", "fallback" (a fixed sentence) or "none"
Sec3Content(resumo) == IF resumo = "text" THEN "data" ELSE "none"

Sec4Content(tr, an) ==
  IF TraitLines(tr) # <<>> \/ "text" \in Range(an) THEN "data" ELSE "none"

Sec6Content(saude, ind) ==
  IF saude = "text" \/ "num" \in Range(ind) THEN "data" ELSE "none"

ListContent(items) ==
  IF items = <<>> THEN "fallback"
  ELSE IF "text" \in Range(items) THEN "data" ELSE "none"

Sec9ContentNoBlock(recs) == IF "text" \in Range(recs) THEN "data" ELSE "none"
Sec9Content(recs) == IF "text" \in Range(recs) THEN "data" ELSE "fallback"

Sec10Content(alts) ==
  IF alts = <<>> THEN "fallback"
  ELSE IF "named" \in Range(alts) THEN "data" ELSE "none"

\* kind of a list-valued field
ListKind(items) ==
  IF items = <<>> THEN "empty"
  ELSE IF "text" \in Range(items) THEN "text" ELSE "blank"

\* ------------------------------------------------------------------ Init
EmptyContent == [n \in Sections |-> "pending"]
EmptySlots == [c \in Charts |-> {}]
NoRaster == [c \in Charts |-> "pending"]

InitDoc ==
  /\ pc = "start"
  /\ raster = NoRaster
  /\ sections = <<>>
  /\ content = EmptyContent
  /\ justificativa = "empty"
  /\ ci = 0
  /\ path = "None"
  /\ slot = EmptySlots
  /\ read = "nothing"
  /\ comp_fig = "None"
  /\ tmpFiles = {}
  /\ faults = {}
  /\ reported = {}
  /\ result = NoDoc
  /\ disk = "nofile"

\* no run of gerar_pdf_corporativo is under way
InitAtRest ==
  /\ InitDoc
  /\ compat = "ok"
  /\ unicode = FALSE

InitRun ==
  /\ InitDoc
  /\ compat \in {"ok", "bad"}
  /\ unicode = FALSE

\* the studies of single functions are at rest, except the one named
IdleTraits == traits = <<>> /\ traitLines = <<>> /\ tpc = "idle"
IdleComp ==
  /\ competencias = <<>> /\ pontos_fortes = <<>> /\ pontos_atencao = <<>>
  /\ fortes = <<>> /\ atencao = <<>> /\ cpc = "idle"
IdleSafe == s_in = <<>> /\ s_out = <<>> /\ spc = "idle" /\ s_again = <<>>
IdlePrompt ==
  text = 0 /\ training_context = 0 /\ prompt = <<>> /\ ppc = "idle"
IdleChat ==
  /\ max_retries = 0 /\ provider = "none" /\ attempt = 0 /\ events = <<>>
  /\ kpc = "idle"
IdleConv ==
  fn = "none" /\ responses = <<>> /\ tracked = <<>> /\ ret = <<>> /\ vpc = "idle"
IdleApp == ss = <<>> /\ analyses = 0 /\ gens = <<>> /\ mails = {}
IdleRadar ==
  /\ labels_drawn = <<>> /\ desvios = <<>> /\ rtraits = <<>>
  /\ traits_ideais = <<>> /\ rpc = "idle"
IdleLayout ==
  /\ page = 0 /\ y = 0 /\ hdr = {} /\ ftr = {} /\ block = <<>>
  /\ lpc = "idle"
IdleDraw == prim = "none" /\ txt = <<>> /\ attempts = <<>> /\ dpc = "idle"
IdleTwice == now = 0 /\ fonts = {} /\ outs = <<>>
IdleExcept(study) ==
  /\ study # "traits" => IdleTraits
  /\ study # "comp" => IdleComp
  /\ study # "safe" => IdleSafe
  /\ study # "layout" => IdleLayout
  /\ study # "draw" => IdleDraw
  /\ study # "twice" => IdleTwice
  /\ study # "prompt" => IdlePrompt
  /\ study # "chat" => IdleChat
  /\ study # "conv" => IdleConv
  /\ study # "app" => IdleApp
  /\ study # "radar" => IdleRadar

Init ==
  /\ InitRun
  /\ IdleExcept("none")

\* --------------------------------------------------------------- actions
\* an exception reaches the top-level handler: pdf and the locals of the
\* full path are dropped
Abort(cause) ==
  /\ pc' = "except"
  /\ faults' = faults \cup {cause}
  /\ sections' = <<>>
  /\ content' = EmptyContent
  /\ justificativa' = "empty"
  /\ ci' = 0
  /\ path' = "None"
  /\ slot' = EmptySlots
  /\ read' = "nothing"
  /\ comp_fig' = "None"
  /\ raster' = NoRaster

\* the section of position p is drawn with content c after its heading;
\* j is the value of the local justificativa after the step
Emit(p, c, r, j) ==
  /\ pc' = After(p)
  /\ sections' = Append(sections, p)
  /\ content' = [content EXCEPT ![p] = c]
  /\ read' = r
  /\ justificativa' = j
  /\ UNCHANGED <<faults, ci, path, slot, comp_fig, raster>>

\* a step: raises from the payload, raises from an unguarded FPDF call
\* (set_font, ln, rect, add_page), or draws
Step(p, payloadRaises, drawOK, c, r, j) ==
  IF payloadRaises THEN Abort("payload")
  ELSE IF ~drawOK THEN Abort("draw")
  ELSE Emit(p, c, r, j)

restVars == <<envVars, unicode, tmpFiles, reported, result, disk, auxVars>>

\* lines 479-484
Start ==
  /\ pc = "start"
  /\ \E mkdirOK \in BOOLEAN, files \in [FontFiles -> FontStates],
        addRaises \in BOOLEAN :
       IF ~mkdirOK
       THEN /\ Abort("font_dir")
            /\ UNCHANGED unicode
       ELSE /\ unicode' = register_montserrat(files, addRaises)
            /\ pc' = "cover"
            /\ UNCHANGED <<docVars, faults>>
  /\ UNCHANGED <<envVars, tmpFiles, reported, result, disk, auxVars>>

\* line 487, PDFReport.cover
Cover ==
  /\ pc = "cover"
  /\ \E drawOK \in BOOLEAN :
       Step("cover", FALSE, drawOK, "data", "nothing", justificativa)
  /\ UNCHANGED restVars

\* lines 489-497
Sec1 ==
  /\ pc = "candidato"
  /\ \E bfa \in {"dict", "None"}, drawOK \in BOOLEAN :
       Step("candidato", bfa = "None", drawOK, "data", bfa, justificativa)
  /\ UNCHANGED restVars

\* lines 499-529
Sec2 ==
  /\ pc = "decisao"
  /\ \E just \in TextKinds, drawOK \in BOOLEAN :
       Step("decisao", compat = "bad", drawOK, "data", just, Get(just, "empty"))
  /\ UNCHANGED restVars

\* lines 531-535; justificativa is not read after line 533
Sec3 ==
  /\ pc = "resumo"
  /\ \E resumo \in TextKinds, drawOK \in BOOLEAN :
       Step("resumo", FALSE, drawOK, Sec3Content(Get(resumo, justificativa)),
            resumo, "empty")
  /\ UNCHANGED restVars

\* lines 537-555
Sec4 ==
  /\ pc = "tracos"
  /\ \E tr \in TraitMaps, an \in SeqsUpTo(ItemKinds, MaxItems),
        drawOK \in BOOLEAN :
       Step("tracos", FALSE, drawOK, Sec4Content(tr, an),
            IF tr = <<>> THEN "empty" ELSE "traits", justificativa)
  /\ UNCHANGED restVars

\* lines 557-569: heading of section 5 and the three figures
Viz ==
  /\ pc = "graficos"
  /\ \E comps \in SeqsUpTo(CompKinds, MaxItems), drawOK \in BOOLEAN :
       LET fig == criar_grafico_competencias(comps) IN
       IF fig = "raise" THEN Abort("payload")
       ELSE IF ~drawOK THEN Abort("draw")
       ELSE /\ pc' = "raster"
            /\ ci' = 1
            /\ comp_fig' = fig
            /\ sections' = Append(sections, "graficos")
            /\ read' = IF comps = <<>> THEN "empty" ELSE "comps"
            /\ UNCHANGED <<content, justificativa, path, slot, faults, raster>>
  /\ UNCHANGED restVars

\* the condition of the slot's if: comp_fig is tested before _embed is called
\* (line 596); _embed starts with fig_to_png_path (line 572)
Raster ==
  /\ pc = "raster"
  /\ LET c == ChartOrder[ci] IN
     IF c = "comp" /\ comp_fig = "None"
     THEN /\ pc' = "slot_text"
          /\ path' = "None"
          /\ UNCHANGED <<tmpFiles, faults, sections, content, justificativa,
                         ci, slot, read, comp_fig, raster>>
     ELSE \E env \in RasterOutcomes :
          LET r == fig_to_png_path(env) IN
          /\ tmpFiles' = IF r.created THEN tmpFiles \cup {c} ELSE tmpFiles
          /\ IF r.raised THEN Abort("raster")
             ELSE /\ path' = r.path
                  /\ raster' = [raster EXCEPT ![c] = env]
                  /\ pc' = IF r.path = "None" THEN "slot_text" ELSE "place"
                  /\ UNCHANGED <<faults, sections, content, justificativa,
                                 ci, slot, read, comp_fig>>
  /\ UNCHANGED <<envVars, unicode, reported, result, disk, auxVars>>

\* lines 574-577: pdf.image, guarded
Place ==
  /\ pc = "place"
  /\ \E ok \in BOOLEAN :
       slot' = [slot EXCEPT ![ChartOrder[ci]] = IF ok THEN {"image"} ELSE {}]
  /\ pc' = "remove"
  /\ UNCHANGED <<sections, content, justificativa, ci, path, read, comp_fig,
                 raster, faults>>
  /\ UNCHANGED restVars

\* lines 578-582: os.remove of the file fig_to_png_path has just created,
\* taken to succeed (a failing os.remove is swallowed by the except of
\* line 580 and would leave the file behind); _embed returns True
Remove ==
  /\ pc = "remove"
  /\ tmpFiles' = tmpFiles \ {ChartOrder[ci]}
  /\ pc' = "slot_text"
  /\ UNCHANGED <<docVars, faults>>
  /\ UNCHANGED <<envVars, unicode, reported, result, disk, auxVars>>

\* what the slot shows once its text is drawn: the summary paragraph when
\* _embed returned True, the fallback sentence otherwise
SlotAfterTextNoElse(drawn, embedded) ==
  IF embedded THEN drawn \cup {"summary"} ELSE drawn
SlotAfterText(drawn, embedded) ==
  IF embedded THEN drawn \cup {"summary"} ELSE {"fallback"}

VizContent(sl) ==
  IF \A c \in Charts : sl[c] \subseteq {"fallback"} THEN "fallback" ELSE "data"

\* the body of the slot's if / else and the pdf.ln(1) that follows it
\* (lines 586-593, 596-608, 611-616)
SlotText ==
  /\ pc = "slot_text"
  /\ \E drawOK \in BOOLEAN :
       IF ~drawOK THEN Abort("draw")
       ELSE LET c == ChartOrder[ci]
                sl == [slot EXCEPT ![c] = SlotAfterText(slot[c], path # "None")]
            IN /\ slot' = sl
               /\ path' = "None"
               /\ IF ci < Len(ChartOrder)
                  THEN /\ ci' = ci + 1
                       /\ pc' = "raster"
                       /\ UNCHANGED content
                  ELSE /\ ci' = ci
                       /\ pc' = After("graficos")
                       /\ content' = [content EXCEPT !["graficos"] = VizContent(sl)]
               /\ UNCHANGED <<sections, justificativa, read, comp_fig, raster,
                              faults>>
  /\ UNCHANGED restVars

\* lines 618-629
Sec6 ==
  /\ pc = "saude"
  /\ \E saude \in TextKinds, ind \in SeqsUpTo(IndKinds, MaxItems),
        drawOK \in BOOLEAN :
       Step("saude", "bad" \in Range(ind), drawOK, Sec6Content(saude, ind),
            saude, justificativa)
  /\ UNCHANGED restVars

\* lines 631-642
Sec7 ==
  /\ pc = "fortes"
  /\ \E pf \in SeqsUpTo(ItemKinds, MaxItems), drawOK \in BOOLEAN :
       Step("fortes", FALSE, drawOK, ListContent(pf), ListKind(pf), justificativa)
  /\ UNCHANGED restVars

\* lines 644-655
Sec8 ==
  /\ pc = "atencao"
  /\ \E pa \in SeqsUpTo(ItemKinds, MaxItems), drawOK \in BOOLEAN :
       Step("atencao", FALSE, drawOK, ListContent(pa), ListKind(pa), justificativa)
  /\ UNCHANGED restVars

\* lines 657-681: an item that is truthy and not a string raises in _safe
Sec9 ==
  /\ pc = "recomendacoes"
  /\ \E recs \in SeqsUpTo(RecKinds, MaxItems), drawOK \in BOOLEAN :
       IF "dict" \in Range(recs) THEN Abort("rec_dict")
       ELSE Step("recomendacoes", FALSE, drawOK, Sec9Content(recs),
                 ListKind(recs), justificativa)
  /\ UNCHANGED restVars

\* lines 683-702: cargo_info.get raises on an item that is not a dict
Sec10 ==
  /\ pc = "alternativos"
  /\ \E alts \in SeqsUpTo(AltKinds, MaxItems), drawOK \in BOOLEAN :
       Step("alternativos", "notdict" \in Range(alts), drawOK, Sec10Content(alts),
            IF alts = <<>> THEN "empty" ELSE "alts", justificativa)
  /\ UNCHANGED restVars

\* lines 704-714
Sec11 ==
  /\ pc = "finais"
  /\ \E drawOK \in BOOLEAN :
       Step("finais", FALSE, drawOK, "fallback", "nothing", justificativa)
  /\ UNCHANGED restVars

\* lines 716-735: pdf.output, and the replacement document when it raises;
\* a failure while building the replacement reaches the top-level handler
Output ==
  /\ pc = "output"
  /\ \E serOK \in BOOLEAN, fbOK \in BOOLEAN :
       IF serOK
       THEN /\ result' = FullDoc
            /\ pc' = "save"
            /\ UNCHANGED <<docVars, faults>>
       ELSE IF fbOK
       THEN /\ result' = SerFallbackDoc
            /\ pc' = "save"
            /\ faults' = faults \cup {"output"}
            /\ UNCHANGED docVars
       ELSE /\ Abort("output")
            /\ UNCHANGED result
  /\ UNCHANGED <<envVars, unicode, tmpFiles, reported, disk, auxVars>>

\* save: "none" (no save_path), "ok" (written) or "fail" (open / write raises)
SaveOutcomes == {"none", "ok", "fail"}

\* lines 739-745: f.write(buf.getbuffer()) leaves the position of buf
\* alone; the handler of a failed write reports it and falls through to
\* return buf
write_or_raise(buf, save) ==
  [buf |-> buf, pc |-> IF save = "fail" THEN "except" ELSE "done"]
write_to_path(buf, save) == [buf |-> buf, pc |-> "done"]

\* lines 737-745
Save ==
  /\ pc = "save"
  /\ \E save \in SaveOutcomes :
       /\ disk' = IF save = "ok" THEN result.kind ELSE disk
       /\ reported' = IF save = "fail" THEN reported \cup {"save"} ELSE reported
       /\ pc' = write_to_path(result, save).pc
       /\ result' = write_to_path(result, save).buf
  /\ UNCHANGED <<docVars, faults>>
  /\ UNCHANGED <<envVars, unicode, tmpFiles, auxVars>>

\* lines 747-834: the top-level handler
Fallback ==
  /\ pc = "except"
  /\ \E fbOK \in BOOLEAN, save \in SaveOutcomes :
       IF compat = "bad" \/ ~fbOK
       THEN /\ pc' = LastResort.pc
            /\ result' = LastResort.buf
            /\ faults' = faults \cup {"fallback"}
            /\ reported' = reported \cup {"critical"}
            /\ UNCHANGED disk
       ELSE /\ pc' = "done"
            /\ result' = write_to_path(SimpleDoc, save).buf
            /\ disk' = IF save = "ok" THEN SimpleDoc.kind ELSE disk
            /\ reported' = reported \cup {"critical"}
                             \cup (IF save = "fail" THEN {"save_fb"} ELSE {})
            /\ UNCHANGED faults
  /\ UNCHANGED docVars
  /\ UNCHANGED <<envVars, unicode, tmpFiles, auxVars>>

Next ==
  \/ Start \/ Cover \/ Sec1 \/ Sec2 \/ Sec3 \/ Sec4
  \/ Viz \/ Raster \/ Place \/ Remove \/ SlotText
  \/ Sec6 \/ Sec7 \/ Sec8 \/ Sec9 \/ Sec10 \/ Sec11
  \/ Output \/ Save \/ Fallback

Spec == Init /\ [][Next]_vars

\* ------------------------------------------- section 4 on a traits mapping
\* the loop of lines 540-550 on one traits_bfa mapping
InitTraits ==
  /\ InitRun
  /\ IdleExcept("traits")
  /\ traits \in TraitMaps
  /\ traitLines = <<>>
  /\ tpc = "tracos"

RenderTraits ==
  /\ tpc = "tracos"
  /\ traitLines' = TraitLines(traits)
  /\ tpc' = "done"
  /\ UNCHANGED <<runVars, traits, compVars, safeVars, layoutVars, drawVars,
                 twiceVars, llmVars>>

NextTraits == RenderTraits

SpecTraits == InitTraits /\ [][NextTraits]_vars

\* ------------------------------- sections 7 and 8 on a competency list
\* competencias_ms records: nome and nota (0-100)
CompNames == {"Lideranca", "Foco"}
Notas == {30, 50, 57, 70}
CompLists ==
  {s \in SeqsUpTo([nome : CompNames, nota : Notas], MaxComp) :
     \A i, j \in 1..Len(s) : i # j => s[i].nome # s[j].nome}
\* items of pontos_fortes / pontos_atencao: an empty string, a sentence
\* about a competency (named by it), or another sentence
PontoItems == CompNames \cup {"", "frase"}
PontoLists == SeqsUpTo(PontoItems, MaxItems)

NaoInformado == <<"sentence", "fallback">>
\* lines 633-642 and 646-655: one paragraph per truthy item, prefixed by
\* mark, or the fallback sentence when the list is empty or absent
RECURSIVE Bullets(_, _)
Bullets(mark, items) ==
  IF items = <<>> THEN <<>>
  ELSE IF Head(items) = "" THEN Bullets(mark, Tail(items))
  ELSE <<<<mark, Head(items)>>>> \o Bullets(mark, Tail(items))
PontosSection(mark, items) ==
  IF items = <<>> THEN <<NaoInformado>> ELSE Bullets(mark, items)

InitComp ==
  /\ InitAtRest
  /\ IdleExcept("comp")
  /\ competencias \in CompLists
  /\ pontos_fortes \in PontoLists
  /\ pontos_atencao \in PontoLists
  /\ fortes = <<>>
  /\ atencao = <<>>
  /\ cpc = "fortes"

\* lines 632-642
RenderFortes ==
  /\ cpc = "fortes"
  /\ fortes' = PontosSection("+", pontos_fortes)
  /\ cpc' = "atencao"
  /\ UNCHANGED <<competencias, pontos_fortes, pontos_atencao, atencao>>
  /\ UNCHANGED <<runVars, traitVars, safeVars, layoutVars, drawVars,
                 twiceVars, llmVars>>

\* lines 645-655
RenderAtencao ==
  /\ cpc = "atencao"
  /\ atencao' = PontosSection("!", pontos_atencao)
  /\ cpc' = "done"
  /\ UNCHANGED <<competencias, pontos_fortes, pontos_atencao, fortes>>
  /\ UNCHANGED <<runVars, traitVars, safeVars, layoutVars, drawVars,
                 twiceVars, llmVars>>

NextComp == RenderFortes \/ RenderAtencao

SpecComp == InitComp /\ [][NextComp]_vars

\* ------------------------------------------------------- PDFReport._safe
\* A string is a sequence of characters; a character outside ASCII is
\* written by its code point.  The alphabet has one character of each kind
\* _safe tells apart: a letter, the space, keys of the rep table (em dash,
\* right single quote, left double quote, ellipsis, no-break space), the
\* bullet, a whitespace character outside latin-1 (em space) and a
\* non-whitespace character outside latin-1 (euro sign).
Chars == {"a", " ", "U+2014", "U+2019", "U+201C", "U+2026", "U+00A0",
          "U+2022", "U+2003", "U+20AC"}
Strings == SeqsUpTo(Chars, MaxStr)
\* str.isspace / the complement of \S
Whitespace == {" ", "U+00A0", "U+2003"}
\* the characters str.encode("latin-1") can encode
Latin1 == {"a", " ", "-", "'", "\"", ".", "U+00A0"}

\* the values a caller passes: None, a string, or a value that is not a
\* string (a dict of the payload), empty or not
None == [t |-> "None", s |-> <<>>]
Str(s) == [t |-> "str", s |-> s]
Obj(truthy) == [t |-> IF truthy THEN "dict" ELSE "emptydict", s |-> <<>>]
SafeArgs == {None} \cup {Str(s) : s \in Strings} \cup {Obj(b) : b \in BOOLEAN}
Falsy(v) == v.t \in {"None", "emptydict"} \/ (v.t = "str" /\ v.s = <<>>)

\* lines 234-243
rep ==
  "U+2014" :> <<"-">> @@ "U+2013" :> <<"-">> @@
  "U+2018" :> <<"'">> @@ "U+2019" :> <<"'">> @@
  "U+201C" :> <<"\"">> @@ "U+201D" :> <<"\"">> @@
  "U+2026" :> <<".", ".", ".">> @@ "U+00A0" :> <<" ">>

\* lines 244-245: every occurrence of every key is replaced
RECURSIVE replace(_)
replace(s) ==
  IF s = <<>> THEN <<>>
  ELSE (IF Head(s) \in DOMAIN rep THEN rep[Head(s)] ELSE <<Head(s)>>)
         \o replace(Tail(s))

\* lines 247-252: each maximal run of at least max_len non-whitespace
\* characters is cut into pieces of max_len joined by a space; k is the
\* length of the piece under way
RECURSIVE break_from(_, _)
break_from(s, k) ==
  IF s = <<>> THEN <<>>
  ELSE IF Head(s) \in Whitespace THEN <<Head(s)>> \o break_from(Tail(s), 0)
  ELSE IF k = max_len THEN <<" ", Head(s)>> \o break_from(Tail(s), 1)
  ELSE <<Head(s)>> \o break_from(Tail(s), k + 1)
_break_long_tokens(s) == break_from(s, 0)

\* s.encode("latin-1", "ignore").decode("latin-1")
RECURSIVE encode_ignore(_)
encode_ignore(s) ==
  IF s = <<>> THEN <<>>
  ELSE IF Head(s) \in Latin1 THEN <<Head(s)>> \o encode_ignore(Tail(s))
  ELSE encode_ignore(Tail(s))

\* the outcome of a call: it raised, or it returned the string s
Raised == [raised |-> TRUE, s |-> <<>>]
Returns(s) == [raised |-> FALSE, s |-> s]

\* lines 232-259; a truthy value that is not a string has no replace
\* method taking two strings
_safe_no_encode(v, uni) ==
  IF Falsy(v) THEN Returns(<<>>)
  ELSE IF v.t # "str" THEN Raised
  ELSE Returns(_break_long_tokens(replace(v.s)))
_safe(v, uni) ==
  IF Falsy(v) THEN Returns(<<>>)
  ELSE IF v.t # "str" THEN Raised
  ELSE LET s == _break_long_tokens(replace(v.s))
       IN Returns(IF uni THEN s ELSE encode_ignore(s))

InitSafe ==
  /\ InitDoc
  /\ compat = "ok"
  /\ unicode \in BOOLEAN
  /\ IdleExcept("safe")
  /\ s_in \in SafeArgs
  /\ s_out = Returns(<<>>)
  /\ s_again = Returns(<<>>)
  /\ spc = "call"

CallSafe ==
  /\ spc = "call"
  /\ s_out' = _safe(s_in, unicode)
  /\ spc' = "done"
  /\ UNCHANGED <<runVars, s_in, s_again, traitVars, compVars, layoutVars,
                 drawVars, twiceVars, llmVars>>

\* the second sanitization of lines 356 and 273: paragraph passes what
\* _safe returned to safe_multi_cell, which calls _safe on it
CallSafeAgain ==
  /\ spc = "done" /\ ~s_out.raised
  /\ s_again' = _safe(Str(s_out.s), unicode)
  /\ spc' = "twice"
  /\ UNCHANGED <<runVars, s_in, s_out, traitVars, compVars, layoutVars,
                 drawVars, twiceVars, llmVars>>

NextSafe == CallSafe \/ CallSafeAgain

SpecSafe == InitSafe /\ [][NextSafe]_vars

\* ------------------------------------------------------------ page flow
\* Lengths are in tenths of a millimetre (line heights are 4.5, ln(0.5)).
mm == 10
\* FPDF() default format A4, portrait
PageH == 297 * mm
\* set_auto_page_break(auto=True, margin=15)
BMargin == 15 * mm
\* set_margins(20, 20, 20)
TMargin == 20 * mm
page_break_trigger == PageH - BMargin

\* L = [page, y, hdr, ftr]: the page under way, the cursor, the pages that
\* got the running header, the footers drawn as <<page, number shown>>

\* lines 339-345
footer(L) ==
  IF L.page = 1 THEN L
  ELSE [L EXCEPT !.y = PageH - 15 * mm, !.ftr = @ \cup {<<L.page, L.page>>}]

\* lines 324-337: a cell of height 7 with ln=1, then ln(1)
header_every_page(L) ==
  [L EXCEPT !.hdr = @ \cup {L.page}, !.y = @ + 7 * mm + 1 * mm]
header(L) ==
  IF L.page = 1 THEN L
  ELSE [L EXCEPT !.hdr = @ \cup {L.page}, !.y = @ + 7 * mm + 1 * mm]

\* FPDF.add_page: the footer of the page under way, a new page with the
\* cursor at the top margin, its header
add_page(L) ==
  header([(IF L.page > 0 THEN footer(L) ELSE L)
            EXCEPT !.page = L.page + 1, !.y = TMargin])

\* FPDF.cell in flowing mode: automatic page break when the cell would
\* pass the trigger
break_before(L, h) == IF L.y + h > page_break_trigger THEN add_page(L) ELSE L
\* a cell with ln=1
cell(L, h) == [break_before(L, h) EXCEPT !.y = @ + h]
ln(L, h) == [L EXCEPT !.y = @ + h]
\* FPDF.multi_cell: one cell of height h per line, n lines.  The lines
\* that fit above the trigger are drawn on the page under way, the next
\* one breaks the page.
LinesThatFit(L, h) ==
  IF L.y + h > page_break_trigger THEN 0
  ELSE (page_break_trigger - L.y) \div h
RECURSIVE multi_cell(_, _, _)
multi_cell(L, h, n) ==
  IF n <= LinesThatFit(L, h) THEN [L EXCEPT !.y = @ + n * h]
  ELSE multi_cell(add_page(L), h, n - LinesThatFit(L, h))

\* lines 347-353
heading(L) == ln(cell(L, 8 * mm), 1 * mm)
\* lines 355-368, for a body that wraps into n lines
paragraph(L, n) == ln(multi_cell(L, 45, n), 5)

\* lines 298-322: the title, the tagline and the three lines of credits
cover(L) ==
  LET P == [add_page(L) EXCEPT !.y = 32 * mm]
  IN ln(multi_cell(ln(multi_cell(ln(multi_cell(P, 9 * mm, 1), 1 * mm),
                                 6 * mm, 1), 4 * mm),
                   5 * mm, 3), 2 * mm)

\* a fixed-height block: where it was drawn and the page on which its
\* last element was drawn
Block(kind, pg, top, h, endPage) ==
  [kind |-> kind, page |-> pg, top |-> top, bottom |-> top + h,
   endPage |-> endPage]

\* lines 504-525: rect(x0, y0, box_width, 14) at the cursor, then two
\* cells of height 5 from y0 + 2 and ln(3)
BoxH == 14 * mm
box_text(L) == ln(cell(cell(ln(L, 2 * mm), 5 * mm), 5 * mm), 3 * mm)

\* fig_to_png_path(fig, width=1100, height=700, scale=2) drawn w wide
Widths == {170, 110}
ImageH(w) == (w * mm * 700) \div 1100
\* FPDF.image without y: page break when the image would pass the
\* trigger, then the cursor moves below the image
image(L, h) == [break_before(L, h) EXCEPT !.y = @ + h]

Layout == [page |-> page, y |-> y, hdr |-> hdr, ftr |-> ftr]
SetLayout(L) ==
  /\ page' = L.page
  /\ y' = L.y
  /\ hdr' = L.hdr
  /\ ftr' = L.ftr

InitLayout ==
  /\ InitAtRest
  /\ IdleExcept("layout")
  /\ page = 0 /\ y = 0 /\ hdr = {} /\ ftr = {}
  /\ block = <<>>
  /\ lpc = "cover"

layoutRest == <<runVars, traitVars, compVars, safeVars, drawVars, twiceVars,
               llmVars>>

\* line 487
LCover ==
  /\ lpc = "cover"
  /\ SetLayout(cover(Layout))
  /\ lpc' = "candidato"
  /\ UNCHANGED <<block, layoutRest>>

\* lines 490-497: info_text has three lines, more when the name or the
\* cargo wraps
LSec1 ==
  /\ lpc = "candidato"
  /\ \E n \in 3..MaxLines : SetLayout(paragraph(heading(Layout), n))
  /\ lpc' = "decisao"
  /\ UNCHANGED <<block, layoutRest>>

\* lines 500-525
LSec2 ==
  /\ lpc = "decisao"
  /\ LET H == heading(Layout)
         T == box_text(H)
     IN /\ block' = Block("box", H.page, H.y, BoxH, T.page)
        /\ SetLayout(T)
  /\ lpc' = "flow"
  /\ UNCHANGED layoutRest

\* the sections that follow draw headings, paragraphs and chart images
LHeading ==
  /\ lpc = "flow" /\ page < MaxPages
  /\ SetLayout(heading(Layout))
  /\ block' = <<>>
  /\ UNCHANGED <<lpc, layoutRest>>

LParagraph ==
  /\ lpc = "flow" /\ page < MaxPages
  /\ \E n \in 1..MaxLines : SetLayout(paragraph(Layout, n))
  /\ block' = <<>>
  /\ UNCHANGED <<lpc, layoutRest>>

\* lines 571-575
LImage ==
  /\ lpc = "flow" /\ page < MaxPages
  /\ \E w \in Widths :
       LET B == break_before(Layout, ImageH(w))
           I == image(Layout, ImageH(w))
       IN /\ block' = Block("image", B.page, B.y, ImageH(w), I.page)
          /\ SetLayout(I)
  /\ UNCHANGED <<lpc, layoutRest>>

\* FPDF.close, called by output (line 718): the footer of the last page
LClose ==
  /\ lpc = "flow"
  /\ SetLayout(footer(Layout))
  /\ lpc' = "closed"
  /\ UNCHANGED <<block, layoutRest>>

NextLayout ==
  LCover \/ LSec1 \/ LSec2 \/ LHeading \/ LParagraph \/ LImage \/ LClose

SpecLayout == InitLayout /\ [][NextLayout]_vars

\* ------------------------------------------------------ text primitives
\* The txt argument of safe_cell / safe_multi_cell: a string, given by the
\* length of what _safe makes of it, or a truthy value that is not a
\* string, on which _safe raises (lines 262 and 273 are outside the try).
TxtArgs == {[t |-> "str", len |-> n] : n \in 0..MaxTxt}
             \cup {[t |-> "dict", len |-> 0]}

\* len of the placeholder sentence of line 282
PlaceholderLen == 79
\* line 267: the slice that safe_cell retries with
CutLen == 60
short(n) == IF n > CutLen THEN CutLen + 3 ELSE n

\* one call of FPDF.cell / FPDF.multi_cell: what was passed, how long it
\* was and whether the call drew it or raised
Attempt(what, n, ok) == [what |-> what, len |-> n, ok |-> ok]

\* lines 261-270; ok1 and ok2 tell whether the first and the second call
\* of FPDF.cell draw
safe_cell(n, ok1, ok2) ==
  IF ok1 THEN <<Attempt("txt", n, TRUE)>>
  ELSE <<Attempt("txt", n, FALSE), Attempt("short", short(n), ok2)>>

\* lines 272-288
safe_multi_cell(n, ok1, ok2) ==
  IF ok1 THEN <<Attempt("txt", n, TRUE)>>
  ELSE <<Attempt("txt", n, FALSE),
         Attempt("placeholder", PlaceholderLen, ok2)>>

InitDraw ==
  /\ InitAtRest
  /\ IdleExcept("draw")
  /\ prim = "none"
  /\ txt \in TxtArgs
  /\ attempts = <<>>
  /\ dpc = "call"

drawRest == <<runVars, traitVars, compVars, safeVars, layoutVars, twiceVars,
             llmVars>>

SafeCell ==
  /\ dpc = "call"
  /\ prim' = "safe_cell"
  /\ IF txt.t # "str"
     THEN dpc' = "raised" /\ UNCHANGED attempts
     ELSE /\ \E ok1, ok2 \in BOOLEAN :
               attempts' = safe_cell(txt.len, ok1, ok2)
          /\ dpc' = "returned"
  /\ UNCHANGED <<txt, drawRest>>

SafeMultiCell ==
  /\ dpc = "call"
  /\ prim' = "safe_multi_cell"
  /\ IF txt.t # "str"
     THEN dpc' = "raised" /\ UNCHANGED attempts
     ELSE /\ \E ok1, ok2 \in BOOLEAN :
               attempts' = safe_multi_cell(txt.len, ok1, ok2)
          /\ dpc' = "returned"
  /\ UNCHANGED <<txt, drawRest>>

NextDraw == SafeCell \/ SafeMultiCell

SpecDraw == InitDraw /\ [][NextDraw]_vars

\* ------------------------------------- two runs on the same arguments
\* gerar_pdf_corporativo is called twice with the same bfa_data, analysis,
\* cargo and logo, the chart image being the same in both runs.  What a run
\* draws besides its arguments: the date on the cover (line 319, day
\* resolution), the date and time of section 1 (line 495, minute
\* resolution), and the font family, which depends on the files found in
\* or downloaded into the fonts directory (lines 197-218, 480-483).
DayOf(t) == t \div (24 * 60)
Document(uni, t) ==
  [family |-> IF uni THEN "Montserrat" ELSE "Helvetica",
   capa |-> DayOf(t),
   analise |-> t]

InitTwice ==
  /\ InitAtRest
  /\ IdleExcept("twice")
  /\ now = 0
  /\ fonts \in SUBSET FontFiles
  /\ outs = <<>>

twiceRest == <<runVars, traitVars, compVars, safeVars, layoutVars, drawVars,
              llmVars>>

\* one run: the missing font files are downloaded, or not; the files are
\* sound, add_font accepts them
Compose ==
  /\ Len(outs) < 2
  /\ \E files \in [FontFiles -> FontStates] :
       /\ \A f \in FontFiles : files[f] = "present" <=> f \in fonts
       /\ fonts' = {f \in FontFiles : files[f] # "download_fail"}
       /\ outs' = Append(outs,
                         Document(register_montserrat(files, FALSE), now))
  /\ UNCHANGED <<now, twiceRest>>

\* time passes
Tick ==
  /\ now < MaxNow
  /\ now' = now + 1
  /\ UNCHANGED <<fonts, outs, twiceRest>>

NextTwice == Compose \/ Tick

SpecTwice == InitTwice /\ [][NextTwice]_vars

\* ------------------------------------------- the extraction prompt
\* eba_config.py, lines 31-32: the declared payload limits
MAX_INPUT_TEXT_CHARS == 10000
MAX_TRAINING_CONTEXT_CHARS == 3000
\* eba_llm.py, lines 542-543: the limits extract_bfa_data applies
text_limit == 12000
training_limit == 3000

\* A string is given by its length; None and "" have length 0.
Around(n) == (n - Slack)..(n + Slack)
TextLens == {0} \cup Around(MAX_INPUT_TEXT_CHARS) \cup Around(text_limit)
TrainingLens == {0} \cup Around(training_limit)
\* len(s[:limit])
Slice(n, limit) == IF n < limit THEN n ELSE limit

InitPrompt ==
  /\ InitAtRest
  /\ IdleExcept("prompt")
  /\ text \in TextLens
  /\ training_context \in TrainingLens
  /\ prompt = [text |-> 0, training_context |-> 0]
  /\ ppc = "call"

\* lines 545-549
BuildPrompt ==
  /\ ppc = "call"
  /\ prompt' = [text |-> Slice(text, text_limit),
                training_context |-> Slice(training_context, training_limit)]
  /\ ppc' = "built"
  /\ UNCHANGED <<text, training_context>>
  /\ UNCHANGED <<runVars, traitVars, compVars, safeVars, layoutVars,
                 drawVars, twiceVars, chatVars, convVars, appVars, radarVars>>

NextPrompt == BuildPrompt

SpecPrompt == InitPrompt /\ [][NextPrompt]_vars

\* ------------------------------------------------ _chat_completion_json
\* provider: "" stands for None / "" (replaced by "groq" at line 468); the
\* last two are names the function does not support.
Providers == {"", "groq", "openai", "azure", "proxy-429"}
Supported(p) == p \in {"", "groq", "openai"}

\* What str(err) can be: errors of the SDK call or of reading the response
\* (lines 481-482, 502-503), and the error of line 512.
UnsupportedMsg(p) ==
  IF p = "proxy-429" THEN "provedor nao suportado: proxy-429"
  ELSE "provedor nao suportado: azure"
ApiErrors ==
  {"Rate limit reached", "Error code: 429", "Too Many Requests",
   "rate_limit_exceeded", "Connection error", "list index out of range"}

\* lines 447-449: the messages that contain one of the four markers
_looks_like_rate_limit(err) ==
  err \in {"Rate limit reached", "Error code: 429", "Too Many Requests",
           "rate_limit_exceeded", "provedor nao suportado: proxy-429"}

RECURSIVE Pow2(_)
Pow2(n) == IF n = 0 THEN 1 ELSE 2 * Pow2(n - 1)
\* line 518, in tenths of a second: min(8.0, 1.2 * 2 ** (attempt - 1))
sleep_s(a) == IF 12 * Pow2(a - 1) < 80 THEN 12 * Pow2(a - 1) ELSE 80

Ev(op, arg, tenths) == [op |-> op, arg |-> arg, tenths |-> tenths]

\* line 516
should_retry_on_last(err, a, m) == _looks_like_rate_limit(err) /\ a <= m
should_retry(err, a, m) == _looks_like_rate_limit(err) /\ a < m

InitChat ==
  /\ InitAtRest
  /\ IdleExcept("chat")
  /\ max_retries \in 0..MaxRetries
  /\ provider \in Providers
  /\ attempt = 1
  /\ events = <<>>
  /\ kpc = "loop"

chatRest ==
  <<runVars, traitVars, compVars, safeVars, layoutVars, drawVars, twiceVars,
    promptVars, convVars, appVars, radarVars>>

\* lines 467-489 / 491-510: the call succeeds and its content is returned
AttemptReturns ==
  /\ kpc = "loop" /\ attempt <= max_retries
  /\ Supported(provider)
  /\ events' = Append(events, Ev("call", "ok", 0))
  /\ kpc' = "returned"
  /\ UNCHANGED <<max_retries, provider, attempt, chatRest>>

\* lines 467-521: the attempt raises, and the handler sleeps and continues,
\* or breaks to the raise of line 523
AttemptRaises ==
  /\ kpc = "loop" /\ attempt <= max_retries
  /\ \E err \in IF Supported(provider) THEN ApiErrors
                 ELSE {UnsupportedMsg(provider)} :
       LET made == Append(events,
                     Ev(IF Supported(provider) THEN "call" ELSE "refuse", err, 0))
       IN IF should_retry(err, attempt, max_retries)
          THEN /\ events' = Append(made, Ev("sleep", "-", sleep_s(attempt)))
               /\ attempt' = attempt + 1
               /\ kpc' = "loop"
          ELSE /\ events' = made
               /\ kpc' = "raised"
               /\ UNCHANGED attempt
  /\ UNCHANGED <<max_retries, provider, chatRest>>

\* lines 466, 523: the loop ends without a return
LoopExhausted ==
  /\ kpc = "loop" /\ attempt > max_retries
  /\ kpc' = "raised"
  /\ UNCHANGED <<max_retries, provider, attempt, events, chatRest>>

NextChat == AttemptReturns \/ AttemptRaises \/ LoopExhausted

SpecChat == InitChat /\ [][NextChat]_vars

\* ------------------------------------ extract_bfa_data / analyze_bfa_data
\* What a response's content can look like to _extract_first_json.
Contents == {"empty", "prose", "malformed", "object", "wrapped", "deep"}

\* lines 432-444: None for an empty text (436), for a text without a match
\* of _JSON_RE (439) and for a match json.loads rejects (443); the object
\* itself when it nests braces at most two deep, also inside other text; the
\* first two-level fragment json.loads accepts when it nests deeper.
_extract_first_json(reply) ==
  CASE reply \in {"empty", "prose", "malformed"} -> "None"
    [] reply \in {"object", "wrapped"} -> "whole"
    [] OTHER -> "fragment"

Trackers == {"None", "TokenTracker", "UsageTracker"}
step_of(f) == IF f = "extract" THEN "extracao" ELSE "analise"

\* lines 107-138 and 141-165: one add on the step, through add_step for a
\* UsageTracker and add for a TokenTracker; nothing without a tracker
_estimate_and_add(tracker, step) ==
  IF tracker.kind = "None" THEN tracker
  ELSE [tracker EXCEPT ![step] = @ + 1]

\* lines 559-561 / 604-606
after_first_always_repair(parsed) == "repair"
after_first(parsed) == IF parsed # "None" THEN "returned" ELSE "repair"

InitConv ==
  /\ InitAtRest
  /\ IdleExcept("conv")
  /\ fn \in {"extract", "analyze"}
  /\ responses = <<>>
  /\ \E k \in Trackers : tracked = [kind |-> k, extracao |-> 0, analise |-> 0]
  /\ ret = [json |-> "-", text |-> "-", of |-> 0]
  /\ vpc = "call"

convRest ==
  <<runVars, traitVars, compVars, safeVars, layoutVars, drawVars, twiceVars,
    promptVars, chatVars, appVars, radarVars>>

\* lines 556-561 / 601-606
FirstConversation ==
  /\ vpc = "call"
  /\ \E reply \in Contents :
       LET parsed == _extract_first_json(reply)
       IN /\ responses' = <<reply>>
          /\ tracked' = _estimate_and_add(tracked, step_of(fn))
          /\ vpc' = after_first(parsed)
          /\ ret' = IF after_first(parsed) = "returned"
                    THEN [json |-> parsed, text |-> "content", of |-> 1]
                    ELSE ret
  /\ UNCHANGED <<fn, convRest>>

\* lines 564-575 / 608-619
RepairConversation ==
  /\ vpc = "repair"
  /\ \E fix \in Contents :
       LET parsed2 == _extract_first_json(fix)
       IN /\ responses' = Append(responses, fix)
          /\ tracked' = _estimate_and_add(tracked, step_of(fn))
          /\ vpc' = "returned"
          /\ ret' = IF parsed2 # "None"
                    THEN [json |-> parsed2, text |-> "fix", of |-> 2]
                    ELSE [json |-> "None", text |-> "nenhum json", of |-> 0]
  /\ UNCHANGED <<fn, convRest>>

\* lines 556, 568 / 601, 612: the RuntimeError of _chat_completion_json is
\* not caught
ConversationRaises ==
  /\ vpc \in {"call", "repair"}
  /\ vpc' = "raised"
  /\ UNCHANGED <<fn, responses, tracked, ret, convRest>>

NextConv == FirstConversation \/ RepairConversation \/ ConversationRaises

SpecConv == InitConv /\ [][NextConv]_vars

\* ------------------------------------------------------- app.py, main
\* app.py, line 429: the least size of a buffer worth storing, exclusive
MinPdfBytes == 100

\* The data of an analysis is named by the run that produced it (two runs
\* on the same file are two conversations with the model); None is NoData.
NoData == [file |-> 0, run |-> 0]
NoPdf == [buffer |-> NoDoc, of |-> NoData]

\* lines 120-128, and the uploader of line 195 before any file is chosen
InitApp ==
  /\ InitAtRest
  /\ IdleExcept("app")
  /\ ss = [uploaded |-> 0, analysis_complete |-> FALSE, bfa_data |-> NoData,
           analysis |-> NoData, pdf_generated |-> NoPdf]
  /\ analyses = 0
  /\ gens = <<>>
  /\ mails = {}

appRest ==
  <<runVars, traitVars, compVars, safeVars, layoutVars, drawVars, twiceVars,
    promptVars, chatVars, convVars, radarVars>>

\* line 195: a file is chosen, replaced or removed
Upload ==
  /\ \E f \in 0..MaxFiles :
       /\ f # ss.uploaded
       /\ ss' = [ss EXCEPT !.uploaded = f]
  /\ UNCHANGED <<analyses, gens, mails, appRest>>

\* lines 219-272: st.stop() after a failed extraction (234-238) or a failed
\* analysis (254-258) leaves the session as it was; so does an exception of
\* either call
Analyse ==
  /\ ss.uploaded # 0
  /\ analyses < MaxAnalyses
  /\ \E outcome \in {"extract_fails", "analysis_fails", "ok"} :
       IF outcome = "ok"
       THEN LET data == [file |-> ss.uploaded, run |-> analyses + 1]
            IN /\ ss' = [ss EXCEPT !.bfa_data = data, !.analysis = data,
                                   !.analysis_complete = TRUE]
               /\ analyses' = analyses + 1
       ELSE UNCHANGED <<ss, analyses>>
  /\ UNCHANGED <<gens, mails, appRest>>

\* line 276: the results, the generate button and the download button show
ResultsShown ==
  ss.analysis_complete /\ ss.bfa_data # NoData /\ ss.analysis # NoData

\* line 429
stores_any(buf) == buf.nbytes > 0
stores(buf) == buf.nbytes > MinPdfBytes

\* lines 402-440: buf is what gerar_pdf_corporativo returned for the data of
\* the session
GeneratePdf ==
  /\ ResultsShown
  /\ Len(gens) < MaxGens
  /\ \E buf \in {FullDoc, SerFallbackDoc, SimpleDoc, StubDoc},
        configured \in BOOLEAN :
       /\ gens' = Append(gens, [of |-> ss.bfa_data, buffer |-> buf,
                                stored |-> stores(buf)])
       /\ IF stores(buf)
          THEN /\ ss' = [ss EXCEPT !.pdf_generated =
                                     [buffer |-> buf, of |-> ss.bfa_data]]
               /\ mails' = IF configured THEN mails \cup {Len(gens) + 1}
                           ELSE mails
          ELSE UNCHANGED <<ss, mails>>
  /\ UNCHANGED <<analyses, appRest>>

\* lines 442-449
download_button == ResultsShown /\ ss.pdf_generated # NoPdf

NextApp == Upload \/ Analyse \/ GeneratePdf

SpecApp == InitApp /\ [][NextApp]_vars

\* --------------------------------------- criar_radar_bfa / _resumo_radar
\* eba_config.py, lines 55-114: the four ideal profiles, and the empty one
\* of perfil.get("traits_ideais", {})
Profile(a, c, e, m, n) ==
  [k \in Range(TraitKeys) |->
     CASE k = "Abertura" -> a
       [] k = "Conscienciosidade" -> c
       [] k = "Extroversão" -> e
       [] k = "Amabilidade" -> m
       [] OTHER -> n]
NoProfile == <<>>
Profiles ==
  {Profile(<<6, 9>>, <<7, 10>>, <<2, 6>>, <<4, 8>>, <<1, 4>>),
   Profile(<<5, 8>>, <<6, 9>>, <<7, 10>>, <<5, 9>>, <<1, 4>>),
   Profile(<<5, 9>>, <<7, 10>>, <<6, 9>>, <<5, 9>>, <<1, 4>>),
   Profile(<<4, 8>>, <<5, 9>>, <<3, 7>>, <<4, 8>>, <<1, 5>>),
   NoProfile}

\* traits_ideais.get(k, (0, 10)), lines 72-73 and 385
faixa_of(ideais, k) == IF k \in DOMAIN ideais THEN ideais[k] ELSE <<0, 10>>

\* The payload: keys as the extraction prompt requests them ("Extroversao",
\* eba_llm.py line 314) or as the labels spell them; a score, or NoScore
\* for None.
NoScore == -1
PayloadKeys == {"Abertura", "Extroversão", "Extroversao"}
Scores == {NoScore, 0, 4, 8}
Payloads ==
  {s \in SeqsUpTo(PayloadKeys \X Scores, MaxTraits) :
     \A i, j \in 1..Len(s) : i # j => s[i][1] # s[j][1]}

HasKey(tr, k) == \E i \in 1..Len(tr) : tr[i][1] = k
\* traits.get(k, default)
get(tr, k, default) ==
  IF HasKey(tr, k) THEN tr[CHOOSE i \in 1..Len(tr) : tr[i][1] = k][2]
  ELSE default

\* lines 46-52: of the labels only "Extroversão" has a letter to replace
norm(k) == IF k = "Extroversão" THEN "Extroversao" ELSE k

\* float(v or 0), lines 54 and 382
float_or_0(v) == IF v = NoScore THEN 0 ELSE v

\* lines 43-56 and 71-73: what one label shows: the value plotted, the
\* payload key it was read from ("-" when none) and the ideal range drawn
\* around it (<<>> without a profile)
label_drawn(tr, ideais, k) ==
  LET v == get(tr, k, NoScore)
      key == IF v # NoScore THEN k
             ELSE IF HasKey(tr, norm(k)) THEN norm(k)
             ELSE IF HasKey(tr, k) THEN k ELSE "-"
      v2 == IF v # NoScore THEN v ELSE get(tr, norm(k), 0)
  IN [value |-> float_or_0(v2), key |-> key,
      faixa |-> IF ideais = NoProfile THEN <<>> ELSE faixa_of(ideais, k)]

Abs(n) == IF n < 0 THEN -n ELSE n

\* line 385
resumo_faixa(ideais, k) == faixa_of(ideais, k)

\* lines 380-387: per payload entry the range measured against and twice
\* the deviation from its middle
RECURSIVE measure(_, _)
measure(tr, ideais) ==
  IF tr = <<>> THEN <<>>
  ELSE LET k == Head(tr)[1]
           v == float_or_0(Head(tr)[2])
           faixa == resumo_faixa(ideais, k)
       IN <<[key |-> k, value |-> v, faixa |-> faixa,
             desvio2 |-> Abs(2 * v - (faixa[1] + faixa[2]))]>>
            \o measure(Tail(tr), ideais)

InitRadar ==
  /\ InitAtRest
  /\ IdleExcept("radar")
  /\ rtraits \in Payloads
  /\ traits_ideais \in Profiles
  /\ labels_drawn = <<>>
  /\ desvios = <<>>
  /\ rpc = "radar"

radarRest ==
  <<runVars, traitVars, compVars, safeVars, layoutVars, drawVars, twiceVars,
    promptVars, chatVars, convVars, appVars>>

\* line 563
DrawRadar ==
  /\ rpc = "radar"
  /\ labels_drawn' = [k \in Range(TraitKeys) |->
                        label_drawn(rtraits, traits_ideais, k)]
  /\ rpc' = "resumo"
  /\ UNCHANGED <<desvios, rtraits, traits_ideais, radarRest>>

\* line 589; lines 373-377: the general sentence without traits or profile
WriteResumo ==
  /\ rpc = "resumo"
  /\ desvios' = IF rtraits = <<>> \/ traits_ideais = NoProfile THEN <<>>
                ELSE measure(rtraits, traits_ideais)
  /\ rpc' = "done"
  /\ UNCHANGED <<labels_drawn, rtraits, traits_ideais, radarRest>>

NextRadar == DrawRadar \/ WriteResumo

SpecRadar == InitRadar /\ [][NextRadar]_vars

\* ----------------------------------------------------------------- claims
Returned == pc = "done"
Failed(c) == raster[c] \in {"unavailable", "export_fail"}

\* C1: gerar_pdf_corporativo never lets an exception reach its caller, and
\* the buffer it returns is never empty, whatever the payload and whatever
\* fails on the way (font directory, drawing, rasterization, serialization,
\* disk write, the fallback document itself).
C1_AlwaysReturnsBuffer ==
  /\ pc # "raised"
  /\ Returned => /\ result.kind \in {"full", "serfb", "simple", "stub"}
                 /\ result.nbytes > 0

\* the last resort was needed: the full path and the simplified document
\* both failed
C1_Witness == Returned /\ "fallback" \in faults /\ result.kind = "stub"

\* C2 (as claimed): every document returned instead of the full report
\* shows the candidate name, the decision and the compatibility score.
C2_FallbackShowsSummary ==
  (Returned /\ result.kind # "full")
    => {"name", "decision", "compat"} \subseteq result.fields

\* C3: when the rasterization of all three charts fails and nothing else
\* does, the returned document is the full report with its cover and
\* eleven sections in place, each chart slot shows its fallback sentence and
\* nothing else, and the buffer is not empty.
C3_ChartFailureKeepsReport ==
  (Returned /\ faults = {} /\ \A c \in Charts : Failed(c))
    => /\ result.kind = "full"
       /\ Sections \subseteq Range(sections)
       /\ Len(sections) = 12
       /\ \A c \in Charts : slot[c] = {"fallback"}
       /\ result.nbytes > 0

C3_Witness ==
  /\ Returned /\ faults = {} /\ result.kind = "full"
  /\ \A c \in Charts : Failed(c) /\ slot[c] = {"fallback"}

\* C4: fig_to_png_path never raises; it returns None when the backend is
\* unavailable or the export throws, and a path only when the export
\* succeeded.
C4_RasterNeverRaises ==
  /\ "raster" \notin faults
  /\ pc \in {"place", "remove"}
       => path = "tmp" /\ raster[ChartOrder[ci]] = "ok"
  /\ pc = "slot_text"
       => (path # "None" <=> raster[ChartOrder[ci]] = "ok")

\* the export threw, and _embed got None back
C4_Witness ==
  pc = "slot_text" /\ raster[ChartOrder[ci]] = "export_fail" /\ path = "None"

\* C5 (as claimed): no temporary chart file exists when the composer turns
\* to the next chart, nor when the run returns.
C5_NoTempFileLeft ==
  pc \in {"raster", "done"} => tmpFiles = {}

\* C6: the sections of a report are emitted in the fixed order cover,
\* candidate identity, decision and compatibility, executive summary,
\* traits, visualizations, emotional health, strengths, risk points,
\* development recommendations, alternative roles, closing; each once; a
\* full report has them all.
SectionOrder ==
  <<"cover", "candidato", "decisao", "resumo", "tracos", "graficos",
    "saude", "fortes", "atencao", "recomendacoes", "alternativos", "finais">>

C6_FixedSectionOrder ==
  /\ Len(sections) <= Len(SectionOrder)
  /\ sections = SubSeq(SectionOrder, 1, Len(sections))
  /\ (Returned /\ result.kind = "full") => sections = SectionOrder

C6_Witness == Returned /\ result.kind = "full" /\ Len(sections) = 12

\* a chart slot has been processed once its text is drawn
Processed(c) == slot[c] \cap {"summary", "fallback"} # {}

\* C7 (as claimed): the chart slots are processed in the order radar, gauge,
\* competency bars.
C7_RadarGaugeBars ==
  /\ Processed("gauge") => Processed("radar")
  /\ Processed("comp") => Processed("gauge")

\* C7 (amended): the chart slots are processed in the order radar,
\* competency bars, gauge.
C7_RadarBarsGauge ==
  /\ Processed("comp") => Processed("radar")
  /\ Processed("gauge") => Processed("comp")

C7_Witness ==
  Processed("comp") /\ ~Processed("gauge") /\ pc = "place"

\* C8 (as claimed): no section of the report consists of its heading only.
C8_NoBareHeading ==
  \A n \in Sections : content[n] # "none"

\* C9: when the recommendations list is empty or absent, the section
\* "9. Recomendacoes de Desenvolvimento" still shows its fixed text after
\* the heading; the section is never a bare heading.
C9_RecommendationsFallback ==
  /\ "recomendacoes" \in Range(sections)
       => content["recomendacoes"] \in {"data", "fallback"}
  /\ (pc = After("recomendacoes") /\ read = "empty")
       => content["recomendacoes"] = "fallback"

C9_Witness ==
  /\ pc = After("recomendacoes") /\ read = "empty"
  /\ content["recomendacoes"] = "fallback"

\* what section 4 would show if it listed the five labels in their fixed
\* order, a missing or None trait as "not available"
HasValue(tr, k) == \E i \in 1..Len(tr) : tr[i][1] = k /\ tr[i][2] # "None"
CanonicalTraitLines(tr) ==
  [i \in 1..Len(TraitKeys) |->
     <<TraitKeys[i],
       IF HasValue(tr, TraitKeys[i]) THEN "value" ELSE "not available">>]

\* C10 (as claimed): section 4 shows exactly the five trait labels in the
\* fixed order, a missing or None trait as "not available".
C10_CanonicalTraits ==
  tpc = "done" => traitLines = CanonicalTraitLines(traits)

\* the competencies a bullet list names
Listed(lines) == {lines[i][2] : i \in 1..Len(lines)} \cap CompNames

\* C11 (as claimed): the strengths list of section 7 holds exactly the
\* competencies with score >= 55 and the critical-points list of section 8
\* exactly those with score < 45, so a competency with 45 <= score < 55 is
\* in neither list and none is in both.
C11_ScoreBuckets ==
  cpc = "done" =>
    \A i \in 1..Len(competencias) :
      /\ competencias[i].nome \in Listed(fortes)
            <=> competencias[i].nota >= 55
      /\ competencias[i].nome \in Listed(atencao)
            <=> competencias[i].nota < 45

\* C12 (as claimed): _safe raises for no argument, be it a string, None,
\* the empty string or a value that is not a string, and None and the
\* empty string both give the empty string.
C12_SafeIsTotal ==
  spc = "done" =>
    /\ ~s_out.raised
    /\ (s_in = None \/ s_in = Str(<<>>)) => s_out.s = <<>>

\* the length of the longest run of non-whitespace characters of s; k is
\* the length of the run under way, m the longest seen
RECURSIVE LongestFrom(_, _, _)
LongestFrom(s, k, m) ==
  IF s = <<>> THEN m
  ELSE IF Head(s) \in Whitespace THEN LongestFrom(Tail(s), 0, m)
  ELSE LongestFrom(Tail(s), k + 1, IF k + 1 > m THEN k + 1 ELSE m)
LongestToken(s) == LongestFrom(s, 0, 0)

\* C13 (as claimed): in both font modes the string _safe returns has no
\* run of non-whitespace characters longer than the break threshold.
C13_NoLongToken ==
  (spc = "done" /\ ~s_out.raised) => LongestToken(s_out.s) <= max_len

FancyGlyphs == DOMAIN rep \cup {"U+2022"}

\* C15 (as claimed): no smart quote, em or en dash, ellipsis, bullet or
\* no-break space of the argument remains in the string _safe returns.
C15_NoFancyLeft ==
  (spc = "done" /\ s_in.t = "str") =>
    \A i \in 1..Len(s_out.s) : s_out.s[i] \notin FancyGlyphs

\* C16 (as claimed): a fixed-height block (the decision box, a chart
\* image) is drawn whole on one page and above the bottom margin: when it
\* does not fit in the space left, the page is broken before it is drawn.
C16_BlockFits ==
  block # <<>> =>
    /\ block.bottom <= page_break_trigger
    /\ block.endPage = block.page

\* C17: page 1 has neither the running header nor a footer; every later
\* page has the header from the moment it is begun and, once the document
\* is closed, a footer showing its own number, whatever was drawn.
C17_HeaderFooter ==
  /\ 1 \notin hdr
  /\ \A f \in ftr : f[1] # 1 /\ f[2] = f[1]
  /\ \A p \in 2..page : p \in hdr /\ (p < page => <<p, p>> \in ftr)
  /\ lpc = "closed" => \A p \in 2..page : <<p, p>> \in ftr

\* a closed document of three pages
C17_Witness ==
  lpc = "closed" /\ page = 3 /\ hdr = {2, 3} /\ ftr = {<<2, 2>>, <<3, 3>>}

\* C18 (as claimed), for a string argument: a text primitive returns
\* normally; when its draw call fails it retries exactly once, with the
\* text cut into small fixed-size chunks, and when the retry fails too it
\* draws the fixed "content truncated" placeholder.
C18_RetryThenPlaceholder ==
  txt.t = "str" =>
    /\ dpc # "raised"
    /\ (dpc = "returned" /\ ~attempts[1].ok) =>
         /\ Len(attempts) >= 2
         /\ attempts[2].what = "chunks"
         /\ ~attempts[2].ok =>
              Len(attempts) = 3 /\ attempts[3].what = "placeholder"

\* C19 (as claimed): two runs on the same arguments, with the chart image
\* stubbed, return the same bytes.
C19_SameBytes == Len(outs) = 2 => outs[1] = outs[2]

\* C20: when writing save_path fails the error is reported and the caller
\* still receives the buffer a successful write would have left: the
\* document composed before the write, positioned at offset 0.  The top-
\* level handler is not entered, no fallback document replaces it.
C20_SaveFailureKeepsBuffer ==
  /\ "save" \in reported =>
       /\ Returned
       /\ "critical" \notin reported
       /\ result \in {FullDoc, SerFallbackDoc}
  /\ "save_fb" \in reported => Returned /\ result = SimpleDoc
  /\ Returned => result.pos = 0

\* the full report is returned although it could not be written
C20_Witness ==
  /\ Returned /\ "save" \in reported
  /\ result = FullDoc /\ disk = "nofile"

\* C21 (as claimed): a custom font that cannot be made available never
\* aborts the composition: no run leaves the full path because of the font
\* set-up, and a run in which nothing else fails returns the full report.
C21_FontFailureNotFatal ==
  /\ "font_dir" \notin faults
  /\ (Returned /\ faults \subseteq {"font_dir"}) => result.kind = "full"

\* C23 (as claimed): recommendations shaped as the analysis prompt asks
\* for them (objects with titulo, descricao, impacto_esperado) never make
\* the run leave the full path.
C23_DictRecsRendered == "rec_dict" \notin faults

\* C24 (as claimed): a chart slot shows either the image followed by its
\* summary paragraph or the fallback sentence, never both and never a
\* summary without the image.
C24_ImageOrFallback ==
  \A c \in Charts :
    /\ "summary" \in slot[c] => "image" \in slot[c]
    /\ "fallback" \in slot[c] => slot[c] = {"fallback"}

\* C29 (as claimed): in both font modes, sanitizing a sanitized string
\* changes nothing: _safe(_safe(s)) = _safe(s).
C29_SafeIdempotent == spc = "twice" => s_again = s_out

\* C22 (as claimed): the extraction prompt holds at most
\* MAX_INPUT_TEXT_CHARS characters of report text and at most
\* MAX_TRAINING_CONTEXT_CHARS characters of training context.
C22_PromptWithinLimits ==
  ppc = "built" =>
    /\ prompt.text <= MAX_INPUT_TEXT_CHARS
    /\ prompt.training_context <= MAX_TRAINING_CONTEXT_CHARS

\* C25: _chat_completion_json calls the provider at most max_retries times;
\* every attempt but the last failed with an error that looks like a rate
\* limit; a sleep stands only between two attempts, never after the last;
\* the invocation returns exactly when its last attempt succeeded, with no
\* call after the success, and raises on any other error or on a rate-limit
\* error of attempt number max_retries.
IsAttempt(e) == e.op \in {"call", "refuse"}
Attempts == {i \in DOMAIN events : IsAttempt(events[i])}
ApiCalls == {i \in DOMAIN events : events[i].op = "call"}
C25_BoundedRetries ==
  /\ Cardinality(ApiCalls) <= max_retries
  /\ Cardinality(Attempts) <= max_retries
  /\ \A i \in Attempts :
       i < Len(events) =>
         /\ _looks_like_rate_limit(events[i].arg)
         /\ events[i + 1].op = "sleep"
  /\ \A i \in DOMAIN events :
       events[i].op = "sleep" =>
         /\ i > 1 /\ IsAttempt(events[i - 1])
         /\ IF i < Len(events) THEN IsAttempt(events[i + 1]) ELSE kpc = "loop"
  /\ kpc = "returned" <=>
       (events # <<>> /\ events[Len(events)] = Ev("call", "ok", 0))
  /\ (kpc = "loop" /\ events # <<>>) => events[Len(events)].op = "sleep"
  /\ kpc = "raised" =>
       \/ events = <<>> /\ max_retries = 0
       \/ /\ events # <<>>
          /\ IsAttempt(events[Len(events)])
          /\ events[Len(events)].arg # "ok"
          /\ \/ ~_looks_like_rate_limit(events[Len(events)].arg)
             \/ Cardinality(Attempts) = max_retries

\* two rate-limit errors, two sleeps of 1.2 s and 2.4 s, then the response
C25_Witness ==
  /\ kpc = "returned"
  /\ Cardinality(ApiCalls) = 3
  /\ max_retries = 3
  /\ events[2] = Ev("sleep", "-", 12)
  /\ events[4] = Ev("sleep", "-", 24)

\* C26: extract_bfa_data and analyze_bfa_data hold at most two conversations;
\* the repair conversation is held exactly when the first response has no
\* parsable JSON object; the step of the function is updated once per
\* completed conversation (and no other step); the function returns
\* (None, message) exactly when neither response has a parsable JSON object
\* and otherwise the JSON of the first response that has one.
HasJson(reply) == reply \in {"object", "wrapped", "deep"}
C27_DownloadIsCurrent ==
  download_button =>
    /\ ss.pdf_generated.of = ss.bfa_data
    /\ ss.pdf_generated.of = ss.analysis
    /\ gens[Len(gens)].stored

\* C28: ss.pdf_generated only ever holds a buffer of more than 100 bytes, so
\* never the last-resort stub; a generation stores its buffer exactly when
\* the buffer has more than 100 bytes, the stub is never stored, and an
\* admin report is sent only by a generation that stored its buffer.
C28_StubNeverStored ==
  /\ ss.pdf_generated # NoPdf =>
       /\ ss.pdf_generated.buffer.nbytes > MinPdfBytes
       /\ ss.pdf_generated.buffer # StubDoc
       /\ \E i \in DOMAIN gens :
            gens[i].stored /\ gens[i].buffer = ss.pdf_generated.buffer
  /\ \A i \in DOMAIN gens :
       /\ gens[i].stored => gens[i].buffer.nbytes > MinPdfBytes
       /\ gens[i].buffer = StubDoc => ~gens[i].stored
  /\ \A i \in mails : i \in DOMAIN gens /\ gens[i].stored
  /\ (\A i \in DOMAIN gens : ~gens[i].stored) =>
       ss.pdf_generated = NoPdf /\ mails = {}

\* the stub came back after a report had been stored and mailed: nothing
\* was stored or mailed for it
C28_Witness ==
  /\ Len(gens) = 2
  /\ gens[1].buffer = FullDoc /\ gens[2].buffer = StubDoc
  /\ ss.pdf_generated.buffer = FullDoc
  /\ mails = {1}

\* C30 (as claimed): the radar and its summary hold every trait against the
\* same ideal range: whenever a label of the radar plots the value of a
\* payload entry, the summary measures that entry against the range drawn
\* around that label.
C30_SameIdealRange ==
  rpc = "done" =>
    \A i \in DOMAIN desvios : \A k \in Range(TraitKeys) :
      (labels_drawn[k].key = desvios[i].key /\ labels_drawn[k].faixa # <<>>)
        => desvios[i].faixa = labels_drawn[k].faixa

====
